---- MODULE Spec2Model ----
(***************************************************************************)
(* A model of torch/distributed/_spmd/iter_graph_module.py:                *)
(*   IterGraph        -- three parallel fx graphs (setup, cleanup, main)   *)
(*                       kept in step through two node mappings, and the   *)
(*                       cross-iteration move of a block of nodes;         *)
(*   IterGraphModule  -- the dispatcher that picks one of the three graph  *)
(*                       modules per forward call.                         *)
(*                                                                         *)
(* A node is a handle local to its graph: the index of its entry in the    *)
(* graph's op/args/users tables.  0 stands for Python's None (and for any  *)
(* argument that is not a node), -1 for the "__hold__" user key.           *)
(***************************************************************************)
EXTENDS Integers, Sequences, FiniteSets, TLC

\* ------------------------------------------------------------- bounds
MaxCalls == 2          \* call_function nodes of the traced graph
MaxArgs == 2           \* arguments of one call_function node
MaxBlock == 2          \* nodes of a block handed to move_to_next_iter_before
MaxOps == 2            \* engine operations applied after construction
MaxRaises == 1         \* calls that raise before the run is given up
MaxPlainOps == 3       \* engine operations of a run that only erases and freezes
NumVals == 2           \* distinct runtime values
MaxForward == 4        \* forward calls of one run of the dispatcher
MaxIters == 3          \* largest max_iters handed to setup
MaxSetups == 2         \* setup calls of one run of the dispatcher

None == 0
HOLD == 0 - 1

\* ------------------------------------------------------------ helpers
SeqToSet(s) == {s[i] : i \in DOMAIN s}

\* The first position of x in s, 0 when absent.
IndexOf(s, x) ==
  IF \E i \in DOMAIN s : s[i] = x
  THEN CHOOSE i \in DOMAIN s : s[i] = x /\ \A j \in 1..(i - 1) : s[j] # x
  ELSE 0

Reverse(s) == [i \in 1..Len(s) |-> s[Len(s) + 1 - i]]

RECURSIVE Flatten(_)
Flatten(ss) == IF ss = <<>> THEN <<>> ELSE Head(ss) \o Flatten(Tail(ss))

\* F(v), with v evaluated once.
With(v, F(_)) == CHOOSE r \in {F(x) : x \in {v}} : TRUE

\* Sequences over S of length lo..hi.
SeqsOf(S, lo, hi) == UNION {[1..n -> S] : n \in lo..hi}

\* Sequences of distinct elements of S, of length 1..hi.
DistinctSeqs(S, hi) ==
  {s \in SeqsOf(S, 1, hi) : \A i, j \in DOMAIN s : i # j => s[i] # s[j]}

\* A runtime value: a tuple of items, a bare value (its one item) or None.
Vals == 1..NumVals
TupleValue(items) == [tuple |-> TRUE, items |-> items]
BareValue(v) == [tuple |-> FALSE, items |-> <<v>>]
NoneValue == [tuple |-> FALSE, items |-> <<>>]

\* ------------------------------------------------------ fx.Graph, fx.Node
\* A graph.  op, args, users, name, shape and erased are indexed by node
\* handle (1..Len(op)) and keep the entries of erased nodes; args[n] is the
\* flattened argument list of n; shape[n] is, for an output node, the form of
\* the value the graph returns: 0 a bare value, m > 0 a tuple of m elements.
\* The node list is the doubly linked ring of fx: nxt and prv are indexed by
\* 0..Len(op), 0 being the root sentinel; an erased node keeps the links it had.
Root == 0

EmptyGraph ==
  [op |-> <<>>, args |-> <<>>, users |-> <<>>, name |-> <<>>, shape |-> <<>>,
   erased |-> <<>>, nxt |-> [i \in {Root} |-> Root], prv |-> [i \in {Root} |-> Root]]

Handles(g) == 1..Len(g.op)

\* _node_list.__iter__: the ring is followed from the root in one direction
\* until the root is met again; erased nodes are passed over.
RECURSIVE Walk(_, _, _, _)
Walk(g, link, cur, fuel) ==
  IF cur = Root \/ fuel = 0 THEN <<>>
  ELSE (IF g.erased[cur] THEN <<>> ELSE <<cur>>) \o Walk(g, link, link[cur], fuel - 1)

\* graph.nodes and reversed(graph.nodes).
Nodes(g) == Walk(g, g.nxt, g.nxt[Root], Len(g.op) + 1)
RNodes(g) == Walk(g, g.prv, g.prv[Root], Len(g.op) + 1)

\* The nodes among a flattened argument list, in first-seen order, once each
\* (Node._input_nodes).
InputNodes(a) ==
  SelectSeq([i \in DOMAIN a |-> IF a[i] # None /\ IndexOf(a, a[i]) = i THEN a[i] ELSE None],
            LAMBDA e : e # None)

\* Node.__update_args_kwargs: the new arguments are stored, the node is popped
\* from the users of its old inputs (a KeyError when it is not among them, which
\* ends the update there), then added to the users of its new inputs.
FxSetArgs(g0, n, new) ==
  With(g0, LAMBDA g :
    With(InputNodes(g.args[n]), LAMBDA old :
      With({i \in DOMAIN old : n \notin g.users[old[i]]}, LAMBDA bad :
        LET stop == IF bad = {} THEN Len(old) + 1
                    ELSE CHOOSE i \in bad : \A j \in bad : i <= j
            popped == {old[i] : i \in 1..(stop - 1)}
            added == IF bad = {} THEN SeqToSet(InputNodes(new)) ELSE {}
        IN [g |-> [g EXCEPT !.args[n] = new,
                            !.users = [m \in DOMAIN g.users |->
                                         IF m \in added THEN g.users[m] \cup {n}
                                         ELSE IF m \in popped THEN g.users[m] \ {n}
                                         ELSE g.users[m]]],
            err |-> IF bad = {} THEN "" ELSE "KeyError"])))

\* Node._remove_from_list.
FxRemoveFromList(g0, x) ==
  With(g0, LAMBDA g : [g EXCEPT !.nxt[g.prv[x]] = g.nxt[x], !.prv[g.nxt[x]] = g.prv[x]])

\* Node.prepend: x is taken out of the ring and linked in right before t
\* (t may be the root).
FxPrepend(g0, t, x) ==
  IF t = x THEN g0
  ELSE With(FxRemoveFromList(g0, x), LAMBDA g :
         With(g.prv[t], LAMBDA p :
           [g EXCEPT !.nxt = [@ EXCEPT ![p] = x, ![x] = t],
                     !.prv = [@ EXCEPT ![x] = p, ![t] = x]]))

\* Node.append: x is linked in right after t.
FxAppend(g0, t, x) == With(g0, LAMBDA g : FxPrepend(g, g.nxt[t], x))

\* The insert points of a graph: Graph.inserting_before(n) inserts with
\* n.prepend, Graph.inserting_after(n) with n.append, and outside both a node
\* is inserted with root.prepend, at the end of the list.
InsertBefore(n) == [how |-> "prepend", at |-> n]
InsertAfter(n) == [how |-> "append", at |-> n]
InsertEnd == [how |-> "prepend", at |-> Root]

\* Graph.create_node under insert point ins: the new node, linked to itself,
\* gets the next free handle, becomes a user of its inputs and is inserted.
FxCreateNode(g0, op, a, nm, shp, ins) ==
  With(g0, LAMBDA g :
    With(Len(g.op) + 1, LAMBDA id :
      With(SeqToSet(InputNodes(a)) \cap Handles(g), LAMBDA inputs :
        With([op |-> Append(g.op, op),
              args |-> Append(g.args, a),
              users |-> [m \in 1..id |->
                           IF m = id THEN {}
                           ELSE IF m \in inputs THEN g.users[m] \cup {id}
                           ELSE g.users[m]],
              name |-> Append(g.name, nm),
              shape |-> Append(g.shape, shp),
              erased |-> Append(g.erased, FALSE),
              nxt |-> [i \in 0..id |-> IF i = id THEN id ELSE g.nxt[i]],
              prv |-> [i \in 0..id |-> IF i = id THEN id ELSE g.prv[i]]],
             LAMBDA g1 :
               [g |-> IF ins.how = "prepend" THEN FxPrepend(g1, ins.at, id)
                      ELSE FxAppend(g1, ins.at, id),
                id |-> id]))))

\* Graph.erase_node: refused while the node has any user key; an erased node
\* is left alone; otherwise the node leaves the list, is marked erased and its
\* arguments are nulled, which takes it out of its inputs' users.
FxEraseNode(g0, n) ==
  With(g0, LAMBDA g :
    IF g.users[n] # {} THEN [g |-> g, err |-> "RuntimeError"]
    ELSE IF g.erased[n] THEN [g |-> g, err |-> ""]
    ELSE FxSetArgs([FxRemoveFromList(g, n) EXCEPT !.erased[n] = TRUE], n,
                   [i \in DOMAIN g.args[n] |-> None]))

\* ----------------------------------------------------------- IterGraph
\* IterGraph._find_output: the last node of the list that is an output node,
\* None when there is none.
find_output(g) ==
  With(SelectSeq(RNodes(g), LAMBDA n : g.op[n] = "output"), LAMBDA outs :
    IF outs = <<>> THEN None ELSE Head(outs))

\* is_connect_to_output with every block let through.
is_connect_to_output_C9(g, subgraph, output) == TRUE

\* IterGraph._is_connect_to_output: every node user of every node of subgraph
\* is in subgraph or is output; user keys that are not nodes are skipped.
is_connect_to_output(g, subgraph, output) ==
  \A i \in DOMAIN subgraph :
    \A user \in g.users[subgraph[i]] :
      user <= None \/ user \in SeqToSet(subgraph) \/ user = output

\* ExternalInputs with each outside node listed once, where first met.
ExternalInputs_C18(g, subgraph) ==
  InputNodes(Flatten([i \in DOMAIN subgraph |->
                        SelectSeq(g.args[subgraph[i]],
                                  LAMBDA a : a # None /\ a \notin SeqToSet(subgraph))]))

\* The references of the nodes of subgraph to nodes outside it, in traversal
\* order, one entry per reference (lines 179-186).
ExternalInputs(g, subgraph) ==
  Flatten([i \in DOMAIN subgraph |->
             SelectSeq(g.args[subgraph[i]],
                       LAMBDA a : a # None /\ a \notin SeqToSet(subgraph))])

\* One round of the erase loop of _forward_subgraph_inputs (lines 193-212) on
\* node: st is [g, erased, err].
EraseRound(st, node, output) ==
  LET u0 == st.g.users[node]
      u1 == IF Cardinality(u0) = 1 /\ u0 = {output} THEN {} ELSE u0
      u2 == u1 \ st.erased
  IN With([st.g EXCEPT !.users[node] = u2], LAMBDA g2 :
       IF u2 # {} THEN [g |-> g2, erased |-> st.erased, err |-> "RuntimeError"]
       ELSE With(FxEraseNode(g2, node), LAMBDA r :
              [g |-> r.g, erased |-> st.erased \cup {node}, err |-> r.err]))

RECURSIVE EraseLoop(_, _, _)
EraseLoop(st, nodes, output) ==
  IF nodes = <<>> \/ st.err # "" THEN st
  ELSE With(EraseRound(st, Head(nodes), output), LAMBDA st2 :
         EraseLoop(st2, Tail(nodes), output))

\* IterGraph._forward_subgraph_inputs: the inputs of subgraph become extra
\* outputs of graph g; with erase_node the subgraph is erased from g.  The
\* result is [g, err, n]: the graph as the call leaves it, the exception it
\* raised ("" for none) and the number of inputs it returned.
forward_subgraph_inputs(g, subgraph, erase_node) ==
  With(find_output(g), LAMBDA output :
    IF None \in SeqToSet(subgraph) \/ output = None
    THEN [g |-> g, err |-> "AttributeError", n |-> 0]
    ELSE
      With(ExternalInputs(g, subgraph), LAMBDA inputs :
      With(g.args[output] \o inputs, LAMBDA new_output :
      With(IF erase_node
           THEN EraseLoop([g |-> g, erased |-> {}, err |-> ""],
                          Reverse(subgraph), output)
           ELSE [g |-> g, erased |-> {}, err |-> ""], LAMBDA st :
      With(IF st.err # "" THEN [g |-> st.g, err |-> st.err]
           ELSE FxEraseNode(st.g, output), LAMBDA e1 :
        IF e1.err # "" THEN [g |-> e1.g, err |-> e1.err, n |-> 0]
        ELSE [g |-> FxCreateNode(e1.g, "output", new_output, <<>>,
                                 1 + Len(inputs), InsertEnd).g,
              err |-> "", n |-> Len(inputs)])))))

\* One round of the loop of _clone_subgraph (lines 139-163) on node: st is
\* [g, cloned, err], cloned the clones made so far (of the nodes of subgraph,
\* in order).  The clone is created with the arguments of node, then the
\* arguments that are nodes of subgraph are replaced by their clones.
CloneRound(st, subgraph, node, target) ==
  IF node = None
  THEN [g |-> st.g, cloned |-> st.cloned, err |-> "AttributeError"]
  ELSE
    LET a == st.g.args[node]
        inside(x) == x \in SeqToSet(subgraph)
        done(x) == \E j \in DOMAIN st.cloned : subgraph[j] = x
    IN With(FxCreateNode(st.g, "call_function", a, <<>>, 0, InsertBefore(target)),
            LAMBDA c :
         IF \E i \in DOMAIN a : inside(a[i]) /\ ~done(a[i])
         THEN [g |-> c.g, cloned |-> st.cloned, err |-> "AssertionError"]
         ELSE With(FxSetArgs(c.g, c.id,
                             [i \in DOMAIN a |->
                                IF inside(a[i]) THEN st.cloned[IndexOf(subgraph, a[i])]
                                ELSE a[i]]),
                   LAMBDA r :
                [g |-> r.g, cloned |-> Append(st.cloned, c.id), err |-> r.err]))

RECURSIVE CloneLoop(_, _, _, _)
CloneLoop(st, subgraph, i, target) ==
  IF i > Len(subgraph) \/ st.err # "" THEN st
  ELSE With(CloneRound(st, subgraph, subgraph[i], target), LAMBDA st2 :
         CloneLoop(st2, subgraph, i + 1, target))

\* clone_subgraph with the clones put at the end of the node list.
clone_subgraph_C23(g, subgraph, target) ==
  CloneLoop([g |-> g, cloned |-> <<>>, err |-> ""], subgraph, 1, Root)

\* IterGraph._clone_subgraph: [g, cloned, err].
clone_subgraph(g, subgraph, target) ==
  CloneLoop([g |-> g, cloned |-> <<>>, err |-> ""], subgraph, 1, target)

\* The last node of the leading run of placeholders of the node list, None
\* when the list does not start with a placeholder (lines 221-225).
LastPlaceholder(g) ==
  With(Nodes(g), LAMBDA order :
    With({i \in DOMAIN order : \A j \in 1..i : g.op[order[j]] = "placeholder"},
         LAMBDA lead :
      IF lead = {} THEN None
      ELSE order[CHOOSE i \in lead : \A j \in lead : j <= i]))

\* NewPlaceholders with the new input nodes handed out last created first.
RECURSIVE NewPlaceholders_C13(_, _, _, _)
NewPlaceholders_C13(g, last_placeholder, count, i) ==
  IF i < 0 THEN [g |-> g, ids |-> <<>>]
  ELSE With(FxCreateNode(g, "placeholder", <<>>, <<count, i>>, 0,
                         InsertAfter(last_placeholder)), LAMBDA c :
         With(NewPlaceholders_C13(c.g, last_placeholder, count, i - 1), LAMBDA rest :
           [g |-> rest.g, ids |-> <<c.id>> \o rest.ids]))

\* The placeholders of lines 227-237: extra_input placeholders named
\* cross_iter_input_<count>_<i>, created for i = extra_input-1 down to 0, each
\* right after last_placeholder.  [g, ids]: ids[i+1] is the placeholder i.
RECURSIVE NewPlaceholders(_, _, _, _)
NewPlaceholders(g, last_placeholder, count, i) ==
  IF i < 0 THEN [g |-> g, ids |-> <<>>]
  ELSE With(FxCreateNode(g, "placeholder", <<>>, <<count, i>>, 0,
                         InsertAfter(last_placeholder)), LAMBDA c :
         With(NewPlaceholders(c.g, last_placeholder, count, i - 1), LAMBDA rest :
           [g |-> rest.g, ids |-> Append(rest.ids, c.id)]))

\* One round of the rewrite loop of _forward_inputs_to_subgraph (lines
\* 241-249) on node: st is [g, used, err], used the number of new input nodes
\* taken so far.  Each reference to a node outside subgraph takes the next new
\* input node; when none is left the node keeps its arguments.
RewriteRound(st, subgraph, node, ids) ==
  LET a == st.g.args[node]
      ext(i) == a[i] # None /\ a[i] \notin SeqToSet(subgraph)
      nth(i) == st.used + Cardinality({j \in 1..i : ext(j)})
      need == Cardinality({j \in DOMAIN a : ext(j)})
  IN IF st.used + need > Len(ids)
     THEN [g |-> st.g, used |-> Len(ids), err |-> "RuntimeError"]
     ELSE With(FxSetArgs(st.g, node,
                         [i \in DOMAIN a |-> IF ext(i) THEN ids[nth(i)] ELSE a[i]]),
               LAMBDA r : [g |-> r.g, used |-> st.used + need, err |-> r.err])

RECURSIVE RewriteLoop(_, _, _, _)
RewriteLoop(st, subgraph, i, ids) ==
  IF i > Len(subgraph) \/ st.err # "" THEN st
  ELSE With(RewriteRound(st, subgraph, subgraph[i], ids), LAMBDA st2 :
         RewriteLoop(st2, subgraph, i + 1, ids))

\* forward_inputs_to_subgraph without the check for unused input nodes.
forward_inputs_to_subgraph_C19(g, subgraph, extra_input, count) ==
  With(LastPlaceholder(g), LAMBDA last_placeholder :
    IF last_placeholder = None THEN [g |-> g, err |-> "AssertionError"]
    ELSE
      With(NewPlaceholders(g, last_placeholder, count, extra_input - 1), LAMBDA p :
      With(RewriteLoop([g |-> p.g, used |-> 0, err |-> ""], subgraph, 1, p.ids),
           LAMBDA st : [g |-> st.g, err |-> st.err])))

\* IterGraph._forward_inputs_to_subgraph: extra_input new placeholders are
\* put after the placeholders of g and the references of subgraph to nodes
\* outside it are redirected to them.  [g, err].
forward_inputs_to_subgraph(g, subgraph, extra_input, count) ==
  With(LastPlaceholder(g), LAMBDA last_placeholder :
    IF last_placeholder = None THEN [g |-> g, err |-> "AssertionError"]
    ELSE
      With(NewPlaceholders(g, last_placeholder, count, extra_input - 1), LAMBDA p :
      With(RewriteLoop([g |-> p.g, used |-> 0, err |-> ""], subgraph, 1, p.ids),
           LAMBDA st :
        IF st.err # "" THEN [g |-> st.g, err |-> st.err]
        ELSE IF st.used < Len(p.ids) THEN [g |-> st.g, err |-> "RuntimeError"]
        ELSE [g |-> st.g, err |-> ""])))

\* The engine: the three graphs, the two mappings (indexed by main-graph
\* handle, None where the dict has no entry) and the flags and counters of
\* IterGraph.  An operation on it gives [e, err, k]: the engine as the call
\* leaves it, the exception the call raised ("" for none) and, for a move that
\* returned, the number of inputs its block had in the setup graph (0 for any
\* other call).  For a mirrored primitive order lists the graphs on which it
\* made its fx call, in the order it took them up (<<>> for any other call).
Raised(e, err) == [e |-> e, err |-> err, k |-> 0, order |-> <<>>]
Returned(e) == [e |-> e, err |-> "", k |-> 0, order |-> <<>>]
Ended(e, err) == IF err = "" THEN Returned(e) ELSE Raised(e, err)
Took(r, order) == [r EXCEPT !.order = order]

\* IterGraph._lookup_node.
lookup_node(e, node, graph) ==
  IF graph = "setup"
  THEN (IF node \in DOMAIN e.setup_mapping THEN e.setup_mapping[node] ELSE None)
  ELSE IF graph = "cleanup"
  THEN (IF node \in DOMAIN e.cleanup_mapping THEN e.cleanup_mapping[node] ELSE None)
  ELSE node

\* The mappings have one slot per main-graph handle.
PadMapping(m, g) == m \o [i \in 1..(Len(g.op) - Len(m)) |-> None]

\* The engine with main graph g.
WithMain(e, g) ==
  [e EXCEPT !.main = g,
            !.setup_mapping = PadMapping(@, g),
            !.cleanup_mapping = PadMapping(@, g)]

\* Line 322-323: target_node.prepend(node) for each node of subgraph.
RECURSIVE PrependAll(_, _, _)
PrependAll(g, target_node, nodes) ==
  IF nodes = <<>> THEN g
  ELSE With(FxPrepend(g, target_node, Head(nodes)), LAMBDA g2 :
         PrependAll(g2, target_node, Tail(nodes)))

\* HoldUnused with no node marked.
HoldUnused_C24(g) == g

\* Lines 326-331: every node of the list without any user key gets "__hold__".
HoldUnused(g) ==
  With(SeqToSet(Nodes(g)), LAMBDA listed :
    [g EXCEPT !.users = [n \in DOMAIN g.users |->
                           IF n \in listed /\ g.users[n] = {} THEN {HOLD}
                           ELSE g.users[n]]])

\* CountExtraOutput with the count left as it was.
CountExtraOutput_C8(e, main_extra_input) == e

\* Line 332: self.num_extra_output += main_extra_input.
CountExtraOutput(e, main_extra_input) ==
  [e EXCEPT !.num_extra_output = @ + main_extra_input]

\* The steps of move_to_next_iter_before on the main graph, lines 318-332.
MoveMain(e, subgraph, target_node, setup_extra_input) ==
  With(forward_subgraph_inputs(e.main, subgraph, FALSE), LAMBDA x :
    IF x.err # "" THEN Raised(WithMain(e, x.g), x.err)
    ELSE IF x.n # setup_extra_input THEN Raised(WithMain(e, x.g), "AssertionError")
    ELSE
      With(PrependAll(x.g, target_node, subgraph), LAMBDA moved :
      With(forward_inputs_to_subgraph(moved, subgraph, x.n, e.cross_iter_block_count),
           LAMBDA y :
        IF y.err # "" THEN Raised(WithMain(e, y.g), y.err)
        ELSE [Returned(CountExtraOutput(
                         [WithMain(e, HoldUnused(y.g)) EXCEPT
                            !.cleanup = HoldUnused(e.cleanup)], x.n))
                EXCEPT !.k = setup_extra_input])))

\* The steps of move_to_next_iter_before on the cleanup graph, lines 303-312,
\* followed by those on the main graph.
MoveCleanup(e, subgraph, target_node, setup_extra_input) ==
  With(lookup_node(e, target_node, "cleanup"), LAMBDA target_cleanup_node :
    IF target_cleanup_node = None THEN Raised(e, "AssertionError")
    ELSE
      With(clone_subgraph(e.cleanup,
                          [i \in DOMAIN subgraph |->
                             lookup_node(e, subgraph[i], "cleanup")],
                          target_cleanup_node), LAMBDA c :
        IF c.err # "" THEN Raised([e EXCEPT !.cleanup = c.g], c.err)
        ELSE
          With(forward_inputs_to_subgraph(c.g, c.cloned, setup_extra_input,
                                          e.cross_iter_block_count), LAMBDA y :
            IF y.err # "" THEN Raised([e EXCEPT !.cleanup = y.g], y.err)
            ELSE With([e EXCEPT !.cleanup = y.g], LAMBDA e2 :
                   MoveMain(e2, subgraph, target_node, setup_extra_input)))))

\* IterGraph.move_to_next_iter_before.
move_to_next_iter_before(e, subgraph, target_node) ==
  IF e._freeze_cross_iter_movement THEN Raised(e, "RuntimeError")
  ELSE IF ~is_connect_to_output(e.main, subgraph, find_output(e.main))
  THEN Raised(e, "ValueError")
  ELSE
    With([e EXCEPT !.cross_iter_block_count = @ + 1], LAMBDA e1 :
    With(forward_subgraph_inputs(e1.setup,
                                 [i \in DOMAIN subgraph |->
                                    lookup_node(e1, subgraph[i], "setup")],
                                 TRUE), LAMBDA s :
    With([e1 EXCEPT !.setup = s.g], LAMBDA e2 :
      IF s.err # "" THEN Raised(e2, s.err)
      ELSE MoveCleanup(e2, subgraph, target_node, s.n))))

\* IterGraph.erase_node.
erase_node(e, to_erase) ==
  IF e._freeze_cross_iter_movement
  THEN With(FxEraseNode(e.main, to_erase), LAMBDA r :
         Took(Ended(WithMain(e, r.g), r.err), <<"main">>))
  ELSE
    With(lookup_node(e, to_erase, "setup"), LAMBDA setup_node :
      IF setup_node = None THEN Raised(e, "AssertionError")
      ELSE
        With(FxEraseNode(e.setup, setup_node), LAMBDA s :
          IF s.err # "" THEN Took(Raised([e EXCEPT !.setup = s.g], s.err), <<"setup">>)
          ELSE
            With(FxEraseNode(e.main, to_erase), LAMBDA m :
            With([e EXCEPT !.setup = s.g, !.main = m.g], LAMBDA e2 :
            With(lookup_node(e2, to_erase, "cleanup"), LAMBDA cleanup_node :
              IF m.err # "" THEN Took(Raised(e2, m.err), <<"setup", "main">>)
              ELSE IF cleanup_node = None
              THEN Took(Raised(e2, "AttributeError"), <<"setup", "main", "cleanup">>)
              ELSE With(FxEraseNode(e2.cleanup, cleanup_node), LAMBDA c :
                     Took(Ended([e2 EXCEPT !.cleanup = c.g], c.err),
                          <<"setup", "main", "cleanup">>)))))))

\* IterGraph.node_add_user.
node_add_user(e, node, user) ==
  LET sn == lookup_node(e, node, "setup")
      cn == lookup_node(e, node, "cleanup")
      su == IF user > None THEN lookup_node(e, user, "setup") ELSE user
      cu == IF user > None THEN lookup_node(e, user, "cleanup") ELSE user
  IN IF sn = None THEN Raised(e, "AssertionError")
     ELSE IF cn = None
     THEN Took(Raised([e EXCEPT !.setup.users[sn] = @ \cup {su}], "AssertionError"),
               <<"setup">>)
     ELSE Took(Returned([e EXCEPT !.setup.users[sn] = @ \cup {su},
                                  !.cleanup.users[cn] = @ \cup {cu},
                                  !.main.users[node] = @ \cup {user}]),
               <<"setup", "cleanup", "main">>)

RECURSIVE KeepLoop(_, _)
KeepLoop(st, nodes) ==
  IF nodes = <<>> \/ st.err # "" THEN st
  ELSE With(IF st.e.main.users[Head(nodes)] = {} /\ st.e.main.op[Head(nodes)] # "output"
            THEN node_add_user(st.e, Head(nodes), HOLD) ELSE st, LAMBDA st2 :
         KeepLoop(st2, Tail(nodes)))

\* IterGraph.keep_unused_nodes.
keep_unused_nodes(e) == KeepLoop(Returned(e), Nodes(e.main))

\* IterGraph.freeze_cross_iter_movement.
freeze_cross_iter_movement(e) ==
  Returned([e EXCEPT !._freeze_cross_iter_movement = TRUE])

\* Graph.inserting_before(n) and Graph.inserting_after(n) as a caller may
\* give them: with None for n the first is the start of the graph and the
\* second its end.
InsertingBefore(n) == IF n = None THEN InsertAfter(Root) ELSE InsertBefore(n)
InsertingAfter(n) == IF n = None THEN InsertBefore(Root) ELSE InsertAfter(n)

\* insert_context with the cleanup graph left at its default insert point.
insert_context_C11(e, func, node) ==
  LET at(graph) == IF node = None THEN None ELSE lookup_node(e, node, graph)
      point(graph) == IF func = "" THEN InsertEnd
                      ELSE IF func = "inserting_before" THEN InsertingBefore(at(graph))
                      ELSE InsertingAfter(at(graph))
  IN IF func # "" /\ node # None /\ (at("setup") = None \/ at("cleanup") = None)
     THEN [err |-> "AssertionError", setup |-> InsertEnd, cleanup |-> InsertEnd,
           main |-> InsertEnd]
     ELSE [err |-> "", setup |-> point("setup"), cleanup |-> InsertEnd,
           main |-> point("main")]

\* IterGraph.inserting_before, IterGraph.inserting_after (_insert_context):
\* the insert point each of the three graphs is put at by func(node), func
\* being "" outside any such context.  A node without counterpart in the setup
\* or the cleanup graph fails the assertion of line 88.
insert_context(e, func, node) ==
  LET at(graph) == IF node = None THEN None ELSE lookup_node(e, node, graph)
      point(graph) == IF func = "" THEN InsertEnd
                      ELSE IF func = "inserting_before" THEN InsertingBefore(at(graph))
                      ELSE InsertingAfter(at(graph))
  IN IF func # "" /\ node # None /\ (at("setup") = None \/ at("cleanup") = None)
     THEN [err |-> "AssertionError", setup |-> InsertEnd, cleanup |-> InsertEnd,
           main |-> InsertEnd]
     ELSE [err |-> "", setup |-> point("setup"), cleanup |-> point("cleanup"),
           main |-> point("main")]

\* The engine with main graph g in which the new steady node id is mapped to
\* setup_node and cleanup_node.
Mapped(e, g, id, setup_node, cleanup_node) ==
  [WithMain(e, g) EXCEPT !.setup_mapping[id] = setup_node,
                         !.cleanup_mapping[id] = cleanup_node]

\* LookupArgs with no counterpart found for any argument.
LookupArgs_C22(e, args, graph) == [i \in DOMAIN args |-> None]

\* args with every node replaced by what _lookup_node gives for it in graph.
LookupArgs(e, args, graph) ==
  [i \in DOMAIN args |-> IF args[i] = None THEN None ELSE lookup_node(e, args[i], graph)]

\* IterGraph.call_function under the insert points ips.
call_function(e, args, ips) ==
  IF e._freeze_cross_iter_movement
  THEN With(FxCreateNode(e.main, "call_function", args, <<>>, 0, ips.main), LAMBDA m :
         Took(Returned(WithMain(e, m.g)), <<"main">>))
  ELSE
    With(FxCreateNode(e.setup, "call_function", LookupArgs(e, args, "setup"),
                      <<>>, 0, ips.setup), LAMBDA s :
    With(FxCreateNode(e.main, "call_function", args, <<>>, 0, ips.main), LAMBDA m :
    With(FxCreateNode(e.cleanup, "call_function", LookupArgs(e, args, "cleanup"),
                      <<>>, 0, ips.cleanup), LAMBDA c :
      Took(Returned(Mapped([e EXCEPT !.setup = s.g, !.cleanup = c.g],
                           m.g, m.id, s.id, c.id)),
           <<"setup", "main", "cleanup">>))))

\* IterGraph.placeholder under the insert points ips.
placeholder(e, name, ips) ==
  IF e._freeze_cross_iter_movement
  THEN With(FxCreateNode(e.main, "placeholder", <<>>, name, 0, ips.main), LAMBDA m :
         Took(Returned(WithMain(e, m.g)), <<"main">>))
  ELSE
    With(FxCreateNode(e.main, "placeholder", <<>>, name, 0, ips.main), LAMBDA m :
    With(FxCreateNode(e.setup, "placeholder", <<>>, name, 0, ips.setup), LAMBDA s :
    With(FxCreateNode(e.cleanup, "placeholder", <<>>, name, 0, ips.cleanup), LAMBDA c :
      Took(Returned(Mapped([e EXCEPT !.setup = s.g, !.cleanup = c.g],
                           m.g, m.id, s.id, c.id)),
           <<"main", "setup", "cleanup">>))))

\* ------------------------------------------------------ IterGraphModule
\* The graph of setup_gm, cleanup_gm and main_gm.
GraphOf(e, gm) ==
  IF gm = "setup" THEN e.setup ELSE IF gm = "cleanup" THEN e.cleanup ELSE e.main

Placeholders(g) == SelectSeq(Nodes(g), LAMBDA n : g.op[n] = "placeholder")

\* The output node the code generated for g returns at: the first one of the
\* node list, None when the list has none.
ReturnNode(g) ==
  With(SelectSeq(Nodes(g), LAMBDA n : g.op[n] = "output"), LAMBDA outs :
    IF outs = <<>> THEN None ELSE Head(outs))

\* fx.GraphModule.__call__: the generated function takes one positional
\* argument per placeholder.
Accepts(g, args) == Len(args) = Len(Placeholders(g))

\* The values the generated function of g can return: of the form its output
\* node gives, None when g has no output node.
GmOutputs(g) ==
  With(ReturnNode(g), LAMBDA out :
    IF out = None THEN {NoneValue}
    ELSE IF g.shape[out] = 0 THEN {BareValue(v) : v \in Vals}
    ELSE {TupleValue(t) : t \in [1..g.shape[out] -> Vals]})

\* The module: [_iter, _max_iters, _previous_output].  A call of it gives
\* [m, call]: the module as the call leaves it and the record of the call:
\* the graph module it picked (gm), the caller's arguments (args), the
\* arguments handed to the graph module (new_args), whether the graph module
\* ran to its return (ran) and with which value (raw), the value returned to
\* the caller (ret) and the exception raised (err, "" for none).
ModuleRaised(m, c, err) == [m |-> m, call |-> [c EXCEPT !.err = err]]
ModuleReturned(m, c, ret) == [m |-> m, call |-> [c EXCEPT !.ret = ret]]

\* LogOutput with the value dropped.
LogOutput_C5(m, c, output) == ModuleReturned(m, c, NoneValue)

\* Line 661: len(output) of the value about to be returned.
LogOutput(m, c, output) ==
  IF output = NoneValue THEN ModuleRaised(m, c, "TypeError")
  ELSE ModuleReturned(m, c, output)

\* setup with the iteration count reset before the check of max.
setup_C6(m, max) ==
  With([op |-> "setup", iter |-> 0, gm |-> "", args |-> <<max>>,
        new_args |-> <<>>, ran |-> FALSE, raw |-> NoneValue, ret |-> NoneValue,
        err |-> ""], LAMBDA c :
    IF max <= 0 THEN ModuleRaised([m EXCEPT !._iter = 0], c, "ValueError")
    ELSE ModuleReturned([m EXCEPT !._iter = 0, !._max_iters = max], c, NoneValue))

\* IterGraphModule.setup.
setup(m, max) ==
  With([op |-> "setup", iter |-> m._iter, gm |-> "", args |-> <<max>>,
        new_args |-> <<>>, ran |-> FALSE, raw |-> NoneValue, ret |-> NoneValue,
        err |-> ""], LAMBDA c :
    IF max <= 0 THEN ModuleRaised(m, c, "ValueError")
    ELSE ModuleReturned([m EXCEPT !._iter = 0, !._max_iters = max],
                        [c EXCEPT !.iter = 0], NoneValue))

\* Line 643: args + self._previous_output.
ExtendedArgs(args, _previous_output) == args \o _previous_output

\* BoundaryValues with the retained values in reverse order.
BoundaryValues_C3(items, num_actual_output) ==
  Reverse(SubSeq(items, num_actual_output + 1, Len(items)))

\* Line 653: output[num_actual_output:].
BoundaryValues(items, num_actual_output) ==
  SubSeq(items, num_actual_output + 1, Len(items))

\* Lines 654-656: output[:num_actual_output], its one item when it has one.
ActualOutput(items, num_actual_output) ==
  With(SubSeq(items, 1, num_actual_output), LAMBDA actual :
    IF Len(actual) = 1 THEN BareValue(actual[1]) ELSE TupleValue(actual))

\* IterGraphModule._run: output is the value gm returns when it runs.
run(m, e, gm, args, output) ==
  With([op |-> "forward", iter |-> m._iter, gm |-> gm, args |-> args,
        new_args |-> args, ran |-> FALSE, raw |-> NoneValue, ret |-> NoneValue,
        err |-> ""], LAMBDA c0 :
    IF e.num_extra_output > 0
    THEN
      With(ExtendedArgs(args, m._previous_output), LAMBDA new_args :
      With([c0 EXCEPT !.new_args = new_args], LAMBDA c1 :
        IF ~Accepts(GraphOf(e, gm), new_args) THEN ModuleRaised(m, c1, "TypeError")
        ELSE
          With([c1 EXCEPT !.ran = TRUE, !.raw = output], LAMBDA c :
            IF m._iter < m._max_iters
            THEN
              IF ~output.tuple THEN ModuleRaised(m, c, "AssertionError")
              ELSE
                With(Len(output.items) - e.num_extra_output,
                     LAMBDA num_actual_output :
                  IF ~(num_actual_output > 0)
                  THEN ModuleRaised(m, c, "AssertionError")
                  ELSE
                    With([m EXCEPT !._previous_output =
                            BoundaryValues(output.items, num_actual_output)],
                         LAMBDA m2 :
                      LogOutput(m2, c, ActualOutput(output.items,
                                                    num_actual_output))))
            ELSE LogOutput(m, c, output))))
    ELSE
      IF ~Accepts(GraphOf(e, gm), args) THEN ModuleRaised(m, c0, "TypeError")
      ELSE LogOutput(m, [c0 EXCEPT !.ran = TRUE, !.raw = output], output))

\* PickedGm with the cleanup graph picked one call late.
PickedGm_C1(i, max) == IF i = 1 THEN "setup" ELSE IF i = max + 1 THEN "cleanup" ELSE "main"

\* PickedGm with the test of the bound made before the test of the first call.
PickedGm_C29(i, max) == IF i = max THEN "cleanup" ELSE IF i = 1 THEN "setup" ELSE "main"

\* The graph module forward picks at iteration count i under bound max.
PickedGm(i, max) ==
  IF i = 1 THEN "setup" ELSE IF i = max THEN "cleanup" ELSE "main"

\* IterGraphModule.forward.
forward(m, e, args, output) ==
  With([m EXCEPT !._iter = @ + 1], LAMBDA m1 :
    run(m1, e, PickedGm(m1._iter, m1._max_iters), args, output))

\* ------------------------------------------------------------- state
VARIABLES
  setup_graph, cleanup_graph, main_graph,   \* the three fx graphs
  setup_mapping, cleanup_mapping,           \* IterGraph._setup_mapping, _cleanup_mapping
  _freeze_cross_iter_movement,               \* IterGraph._freeze_cross_iter_movement
  cross_iter_block_count,                   \* IterGraph._cross_iter_block_count
  num_extra_output,                         \* IterGraph.num_extra_output
  iter, max_iters, previous_output,         \* IterGraphModule._iter, _max_iters, _previous_output
  log,                                      \* the IterGraph calls made so far, the latest last
  call,                                     \* the latest IterGraphModule call
  setups                                    \* the number of setup calls made so far

graph_vars == <<setup_graph, cleanup_graph, main_graph>>
engine_vars ==
  <<setup_graph, cleanup_graph, main_graph, setup_mapping, cleanup_mapping,
    _freeze_cross_iter_movement, cross_iter_block_count, num_extra_output>>
module_vars == <<iter, max_iters, previous_output>>
vars == <<engine_vars, module_vars, log, call, setups>>

Engine ==
  [setup |-> setup_graph, cleanup |-> cleanup_graph, main |-> main_graph,
   setup_mapping |-> setup_mapping, cleanup_mapping |-> cleanup_mapping,
   _freeze_cross_iter_movement |-> _freeze_cross_iter_movement,
   cross_iter_block_count |-> cross_iter_block_count,
   num_extra_output |-> num_extra_output]

\* The engine becomes e.
EngineBecomes(e) ==
  /\ setup_graph' = e.setup
  /\ cleanup_graph' = e.cleanup
  /\ main_graph' = e.main
  /\ setup_mapping' = e.setup_mapping
  /\ cleanup_mapping' = e.cleanup_mapping
  /\ _freeze_cross_iter_movement' = e._freeze_cross_iter_movement
  /\ cross_iter_block_count' = e.cross_iter_block_count
  /\ num_extra_output' = e.num_extra_output

\* ------------------------------------------------------- construction
\* A traced graph: one placeholder, the call_function nodes of calls (calls[i]
\* the arguments of the i-th, each an earlier node) and an output node that
\* returns the tuple result.
RECURSIVE AddCalls(_, _)
AddCalls(g, calls) ==
  IF calls = <<>> THEN g
  ELSE AddCalls(FxCreateNode(g, "call_function", Head(calls), <<>>, 0, InsertEnd).g,
                Tail(calls))

TracedGraph(calls, result) ==
  LET g0 == FxCreateNode(EmptyGraph, "placeholder", <<>>, <<>>, 0, InsertEnd).g
      g1 == AddCalls(g0, calls)
  IN FxCreateNode(g1, "output", result, <<>>, Len(result), InsertEnd).g

TracedGraphs ==
  {g \in {TracedGraph(calls, <<r>>) :
            calls \in {c \in SeqsOf(SeqsOf(1..MaxCalls, 1, MaxArgs), 1, MaxCalls) :
                         \A i \in DOMAIN c : \A j \in DOMAIN c[i] : c[i][j] <= i},
            r \in 1..(MaxCalls + 1)} :
     \A i \in DOMAIN g.args : \A j \in DOMAIN g.args[i] : g.args[i][j] < i}

\* IterGraph.__init__: the main graph is a copy of the traced graph, the setup
\* and cleanup graphs are deep copies of it, and the mappings pair the nodes of
\* the three node lists in order.
InitialEngine(g) ==
  [setup |-> g, cleanup |-> g, main |-> g,
   setup_mapping |-> [i \in DOMAIN Nodes(g) |-> Nodes(g)[i]],
   cleanup_mapping |-> [i \in DOMAIN Nodes(g) |-> Nodes(g)[i]],
   _freeze_cross_iter_movement |-> FALSE,
   cross_iter_block_count |-> 0,
   num_extra_output |-> 0]

InitialEngines == {InitialEngine(g) : g \in TracedGraphs}

\* No IterGraphModule call yet.
NoCall ==
  [op |-> "", iter |-> 0, gm |-> "", args |-> <<>>, new_args |-> <<>>,
   ran |-> FALSE, raw |-> NoneValue, ret |-> NoneValue, err |-> ""]

\* IterGraphModule.__init__ around the engine e, of which the calls in l were
\* made.
Constructed(e, l) ==
  /\ setup_graph = e.setup
  /\ cleanup_graph = e.cleanup
  /\ main_graph = e.main
  /\ setup_mapping = e.setup_mapping
  /\ cleanup_mapping = e.cleanup_mapping
  /\ _freeze_cross_iter_movement = e._freeze_cross_iter_movement
  /\ cross_iter_block_count = e.cross_iter_block_count
  /\ num_extra_output = e.num_extra_output
  /\ iter = 0
  /\ max_iters = 0
  /\ previous_output = <<>>
  /\ log = l
  /\ call = NoCall
  /\ setups = 0

Init == \E e \in InitialEngines : Constructed(e, <<>>)

\* ------------------------------------------------------ engine actions
EngineCalls == Len(log)
Raises == Len(SelectSeq(log, LAMBDA c : c.err # ""))

\* A run that only erases nodes and freezes may make MaxPlainOps calls.
PlainOps == {"erase_node", "freeze_cross_iter_movement"}

\* A call of an IterGraph method: r is what the method gives.
EngineCall(op, a, result) ==
  /\ \/ EngineCalls < MaxOps
     \/ /\ EngineCalls < MaxPlainOps
        /\ op \in PlainOps
        /\ \A i \in DOMAIN log : log[i].op \in PlainOps
  /\ Raises < MaxRaises
  /\ \E r \in {result} :
       /\ EngineBecomes(r.e)
       /\ log' = Append(log, [op |-> op, args |-> a, err |-> r.err, k |-> r.k,
                               order |-> r.order])
  /\ UNCHANGED <<module_vars, call, setups>>

\* The blocks handed to move_to_next_iter_before: lists of distinct operation
\* nodes of the steady graph g.
Blocks(g) ==
  DistinctSeqs({n \in SeqToSet(Nodes(g)) : g.op[n] = "call_function"}, MaxBlock)

MoveToNextIterBefore ==
  \E subgraph \in Blocks(main_graph) :
    \E target_node \in SeqToSet(Nodes(main_graph)) :
      EngineCall("move_to_next_iter_before", <<subgraph, target_node>>,
                 move_to_next_iter_before(Engine, subgraph, target_node))

EraseNode ==
  \E to_erase \in SeqToSet(Nodes(main_graph)) :
    EngineCall("erase_node", <<to_erase>>, erase_node(Engine, to_erase))

KeepUnusedNodes ==
  EngineCall("keep_unused_nodes", <<>>, keep_unused_nodes(Engine))

NodeAddUser ==
  \E node \in SeqToSet(Nodes(main_graph)) :
    \E user \in {find_output(main_graph), HOLD} :
      EngineCall("node_add_user", <<node, user>>, node_add_user(Engine, node, user))

FreezeCrossIterMovement ==
  EngineCall("freeze_cross_iter_movement", <<>>, freeze_cross_iter_movement(Engine))

Next ==
  \/ MoveToNextIterBefore
  \/ EraseNode
  \/ KeepUnusedNodes
  \/ NodeAddUser
  \/ FreezeCrossIterMovement

Spec == Init /\ [][Next]_vars

\* --------------------------------------------------- dispatcher actions
Module == [_iter |-> iter, _max_iters |-> max_iters, _previous_output |-> previous_output]

\* A call of an IterGraphModule method: r is what the method gives.
ModuleCall(r) ==
  /\ iter' = r.m._iter
  /\ max_iters' = r.m._max_iters
  /\ previous_output' = r.m._previous_output
  /\ call' = r.call
  /\ UNCHANGED <<engine_vars, log>>

Setup ==
  /\ setups < MaxSetups
  /\ setups' = setups + 1
  /\ \E max \in (0 - 1)..MaxIters : \E r \in {setup(Module, max)} : ModuleCall(r)

\* The caller hands forward one argument per placeholder of the traced graph.
CallerArgs ==
  [1..Len(SelectSeq(Placeholders(main_graph), LAMBDA n : main_graph.name[n] = <<>>))
     -> Vals]

Forward ==
  /\ iter < MaxForward
  /\ UNCHANGED setups
  /\ \E args \in CallerArgs :
       \E output \in GmOutputs(GraphOf(Engine, PickedGm(iter + 1, max_iters))) :
         \E r \in {forward(Module, Engine, args, output)} : ModuleCall(r)

\* The engines that returning moves make of the constructed ones, each with
\* the calls that made it.
MovesOf(st) ==
  {[e |-> r.e,
    log |-> Append(st.log, [op |-> "move_to_next_iter_before",
                            args |-> <<r.subgraph, r.target_node>>,
                            err |-> "", k |-> r.k, order |-> r.order])] :
     r \in {x \in {[subgraph |-> sg, target_node |-> t] @@
                       move_to_next_iter_before(st.e, sg, t) :
                     sg \in Blocks(st.e.main),
                     t \in SeqToSet(Nodes(st.e.main))} : x.err = ""}}

RECURSIVE AfterMoves(_, _)
AfterMoves(S, n) ==
  IF n = 0 THEN S ELSE S \cup AfterMoves(UNION {MovesOf(st) : st \in S}, n - 1)

\* What the dispatcher reads of an engine: num_extra_output and, of each
\* graph, the number of placeholders and the form of the returned value.
Signature(e) ==
  <<e.num_extra_output,
    [gm \in {"setup", "main", "cleanup"} |->
       <<Len(Placeholders(GraphOf(e, gm))),
         IF ReturnNode(GraphOf(e, gm)) = None THEN None - 1
         ELSE GraphOf(e, gm).shape[ReturnNode(GraphOf(e, gm))]>>]>>

\* One engine of each signature.
DispatchEngines ==
  With(AfterMoves({[e |-> e, log |-> <<>>] : e \in InitialEngines}, MaxOps), LAMBDA all :
    {CHOOSE st \in all : Signature(st.e) = s : s \in {Signature(st.e) : st \in all}})

InitDispatch == \E st \in DispatchEngines : Constructed(st.e, st.log)

NextDispatch ==
  \/ Setup
  \/ Forward

SpecDispatch == InitDispatch /\ [][NextDispatch]_vars

\* -------------------------------------------------- dispatcher properties
\* The last k entries of t.
LastK(t, k) == SubSeq(t, Len(t) - k + 1, Len(t))

\* A raw result without its last k items, bare when one item remains.
RealOutputs(raw, k) ==
  LET a == SubSeq(raw.items, 1, Len(raw.items) - k)
  IN IF Len(a) = 1 THEN BareValue(a[1]) ELSE TupleValue(a)

\* A step that is a forward call.
ForwardStep == call'.op = "forward" /\ iter' = iter + 1

\* A step that is a setup call.
SetupStep == call'.op = "setup" /\ setups' = setups + 1

\* C1: after setup(N) with N >= 2 the i-th forward call, 1 <= i <= N, is
\* dispatched to the setup graph when i = 1, to the cleanup graph when i = N
\* and to the steady (main) graph in between.
C1_Routing ==
  (call.op = "forward" /\ max_iters >= 2 /\ call.iter >= 1 /\ call.iter <= max_iters)
    => /\ call.iter = iter
       /\ (call.iter = 1 => call.gm = "setup")
       /\ (call.iter = max_iters => call.gm = "cleanup")
       /\ (1 < call.iter /\ call.iter < max_iters => call.gm = "main")

\* The third and last call of a run of three went to the cleanup graph.
C1_Witness ==
  /\ call.op = "forward" /\ max_iters = 3 /\ call.iter = 3
  /\ call.gm = "cleanup" /\ call.ran /\ call.err = ""

\* C2: with num_extra_output = k > 0 every forward call of a configured run
\* that ran the setup or the steady graph returns the raw result without its last k items (bare
\* when one item remains), and those k items are the retained boundary tuple.
C2_OnlyRealOutputs ==
  (/\ num_extra_output > 0 /\ call.op = "forward" /\ call.ran /\ call.err = ""
   /\ 1 <= call.iter /\ call.iter <= max_iters /\ call.gm \in {"setup", "main"})
    => /\ call.ret = RealOutputs(call.raw, num_extra_output)
       /\ previous_output = LastK(call.raw.items, num_extra_output)

\* C3: with num_extra_output = k > 0, the arguments handed to the graph of
\* call i+1 (1 <= i < N) are the caller's arguments followed by the last k
\* items of the raw result of call i, in order.
C3_BoundaryFlows ==
  [][(/\ num_extra_output > 0
      /\ call.op = "forward" /\ call.ran /\ call.err = ""
      /\ call.iter = iter /\ 1 <= iter /\ iter < max_iters
      /\ ForwardStep)
       => call'.new_args = call'.args \o LastK(call.raw.items, num_extra_output)]_vars

\* Call 2 of a run of three got two boundary values, different ones, after
\* the caller's one argument.
C3_Witness ==
  /\ num_extra_output = 2 /\ max_iters = 3
  /\ call.op = "forward" /\ call.iter = 2 /\ call.gm = "main" /\ call.ran
  /\ Len(call.new_args) = 3 /\ call.new_args[2] # call.new_args[3]
  /\ previous_output = LastK(call.raw.items, 2)

\* C4: the first forward call after a setup call that returned hands the
\* setup graph exactly the caller's arguments: nothing retained from an
\* earlier run is appended.
C4_ReconfigureResets ==
  [][(call.op = "setup" /\ call.err = "" /\ ForwardStep)
       => (call'.gm = "setup" /\ call'.new_args = call'.args)]_vars

C6_SetupRejects ==
  [][(SetupStep /\ call'.args[1] <= 0)
       => (call'.err = "ValueError" /\ UNCHANGED <<iter, max_iters, previous_output>>)]_vars

\* A setup call was refused in the middle of a run that had retained boundary
\* values.
C6_Witness ==
  /\ call.op = "setup" /\ call.err = "ValueError" /\ call.args[1] <= 0
  /\ iter > 0 /\ max_iters > 0 /\ previous_output # <<>>

\* C7: a forward call made before any setup call returned raises a
\* configuration error and runs none of the three graphs.
C7_ForwardBeforeSetup ==
  (call.op = "forward" /\ max_iters = 0) => (call.err # "" /\ ~call.ran)

\* ------------------------------------------------------ engine properties
\* A step that is a call of the IterGraph method op.
EngineStep(op) == Len(log') = Len(log) + 1 /\ log'[Len(log')].op = op

RECURSIVE SumK(_)
SumK(l) == IF l = <<>> THEN 0 ELSE Head(l).k + SumK(Tail(l))

\* The output node the graph was traced with.
OriginalOutput(g) ==
  CHOOSE n \in Handles(g) :
    g.op[n] = "output" /\ \A m \in 1..(n - 1) : g.op[m] # "output"

\* The number of values the output node of g returns beyond those the traced
\* graph returned.
AppendedOutputs(g) ==
  IF find_output(g) = None THEN None - 1
  ELSE Len(g.args[find_output(g)]) - Len(g.args[OriginalOutput(g)])

\* The placeholders of g named cross_iter_input_<count>_<i>.
CrossIterPlaceholders(g) ==
  {n \in SeqToSet(Placeholders(g)) : g.name[n] # <<>>}

\* Every call made so far returned and none of them was erase_node.
ReturnedNoErase ==
  \A i \in DOMAIN log : log[i].err = "" /\ log[i].op # "erase_node"

\* C8: after returned move_to_next_iter_before calls num_extra_output is the
\* sum of their k, and it is the number of outputs appended to the setup graph
\* and to the steady graph and the number of cross-iteration placeholders
\* added to the steady graph and to the cleanup graph; the setup graph has
\* gained no placeholder and the cleanup graph no output.
C8_ExtraOutputCount ==
  ReturnedNoErase
    => /\ num_extra_output = SumK(log)
       /\ AppendedOutputs(setup_graph) = num_extra_output
       /\ AppendedOutputs(main_graph) = num_extra_output
       /\ Cardinality(CrossIterPlaceholders(main_graph)) = num_extra_output
       /\ Cardinality(CrossIterPlaceholders(cleanup_graph)) = num_extra_output
       /\ Len(Placeholders(setup_graph)) = Len(Placeholders(cleanup_graph)) - num_extra_output
       /\ CrossIterPlaceholders(setup_graph) = {}
       /\ AppendedOutputs(cleanup_graph) = 0

\* A move of a block with two inputs returned.
C8_Witness ==
  /\ ReturnedNoErase /\ log # <<>>
  /\ log[Len(log)].op = "move_to_next_iter_before" /\ log[Len(log)].k = 2
  /\ num_extra_output = 2

\* Some node of subgraph has, in g, a user that is a node, is not in subgraph
\* and is not the output node of g.
HasOutsideUser(g, subgraph) ==
  \E i \in DOMAIN subgraph :
    \E user \in g.users[subgraph[i]] :
      /\ user \in Handles(g)
      /\ user \notin SeqToSet(subgraph)
      /\ user # find_output(g)

\* C9: move_to_next_iter_before on a frozen engine, or with a block one of
\* whose nodes has a node user outside the block other than the steady
\* graph's output, raises (RuntimeError when frozen, else ValueError) and
\* leaves the three graphs, the mappings, num_extra_output and the other
\* fields of the engine as they were.
C9_MoveRejected ==
  [][(/\ EngineStep("move_to_next_iter_before")
      /\ \/ _freeze_cross_iter_movement
         \/ HasOutsideUser(main_graph, log'[Len(log')].args[1]))
       => /\ log'[Len(log')].err =
               (IF _freeze_cross_iter_movement THEN "RuntimeError" ELSE "ValueError")
          /\ UNCHANGED engine_vars]_vars

\* A move was refused for a block with a user outside it, on an engine that
\* is not frozen.
C9_Witness ==
  /\ log # <<>>
  /\ log[Len(log)].op = "move_to_next_iter_before"
  /\ log[Len(log)].err = "ValueError"
  /\ ~_freeze_cross_iter_movement
  /\ HasOutsideUser(main_graph, log[Len(log)].args[1])

\* The steady node n, or its counterpart in the setup or the cleanup graph,
\* has a user that is a node.
HasNodeUser(e, n) ==
  \/ \E u \in e.main.users[n] : u > None
  \/ /\ lookup_node(e, n, "setup") # None
     /\ \E u \in e.setup.users[lookup_node(e, n, "setup")] : u > None
  \/ /\ lookup_node(e, n, "cleanup") # None
     /\ \E u \in e.cleanup.users[lookup_node(e, n, "cleanup")] : u > None

\* C10: erase_node on a steady node that has a node user in any of the three
\* graphs raises and leaves the three graphs as they were.
C10_EraseRejected ==
  [][(EngineStep("erase_node") /\ HasNodeUser(Engine, log'[Len(log')].args[1]))
       => (log'[Len(log')].err # "" /\ UNCHANGED graph_vars)]_vars

\* The latest call was a move_to_next_iter_before that returned.
MoveReturned ==
  /\ log # <<>>
  /\ log[Len(log)].op = "move_to_next_iter_before"
  /\ log[Len(log)].err = ""

\* Every argument of every node of the list of g is a node of the list that
\* comes before it.
ArgsPrecede(g) ==
  LET listed == Nodes(g)
  IN \A i \in DOMAIN listed :
       \A j \in DOMAIN g.args[listed[i]] :
         \/ g.args[listed[i]][j] = None
         \/ \E p \in 1..(i - 1) : listed[p] = g.args[listed[i]][j]

\* C12: after a move_to_next_iter_before that returned, in each of the three
\* graphs every argument of every node (the output node's included) is a node
\* still in the node list of that graph, at an earlier position.
C12_ArgsPrecede ==
  MoveReturned
    => /\ ArgsPrecede(setup_graph)
       /\ ArgsPrecede(cleanup_graph)
       /\ ArgsPrecede(main_graph)

\* The steady nodes of the list of e whose recorded counterpart in the setup
\* or in the cleanup graph has been erased.
StaleMapped(e) ==
  {n \in SeqToSet(Nodes(e.main)) :
     \/ /\ lookup_node(e, n, "setup") # None
        /\ e.setup.erased[lookup_node(e, n, "setup")]
     \/ /\ lookup_node(e, n, "cleanup") # None
        /\ e.cleanup.erased[lookup_node(e, n, "cleanup")]}

\* C15: in every reachable state, whether the calls made returned or raised,
\* no node still in the steady graph is mapped to a setup or cleanup node that
\* has been erased from its graph.
C15_NoStaleMapping == StaleMapped(Engine) = {}

\* A step that is a call of move_to_next_iter_before; the block it was handed
\* and the counterparts of the block in the setup graph.
MoveStep == Len(log') = Len(log) + 1 /\ log'[Len(log')].op = "move_to_next_iter_before"
MovedBlock == log'[Len(log')].args[1]
MovedSetupBlock == [i \in DOMAIN MovedBlock |-> setup_mapping[MovedBlock[i]]]

\* The references of the nodes of block to nodes of g outside block, as
\* <<node, argument position>>, in the order the block is traversed.
ExternalRefs(g, block) ==
  Flatten([i \in DOMAIN block |->
             SelectSeq([j \in DOMAIN g.args[block[i]] |-> <<block[i], j>>],
                       LAMBDA r : /\ g.args[r[1]][r[2]] # None
                                  /\ g.args[r[1]][r[2]] \notin SeqToSet(block))])

\* The nodes the references refs of g refer to.
Producers(g, refs) == [j \in DOMAIN refs |-> g.args[refs[j][1]][refs[j][2]]]

\* s with every element kept where it is first met.
Dedup(s) == SelectSeq([i \in DOMAIN s |-> IF IndexOf(s, s[i]) = i THEN s[i] ELSE None],
                      LAMBDA x : x # None)

\* The placeholders of g that the move number count added, in list order.
MovePlaceholders(g, count) ==
  SelectSeq(Placeholders(g), LAMBDA n : g.name[n] # <<>> /\ g.name[n][1] = count)

\* C13: a move_to_next_iter_before that returned has, in the steady graph,
\* exported and imported the block pairwise: with refs the references of the
\* block to nodes outside it, in traversal order, there are as many appended
\* outputs and new placeholders as references, the j-th appended output is the
\* node the j-th reference referred to, the j-th reference now refers to the
\* j-th new placeholder (named <count>_<j-1>), the new placeholders follow the
\* old ones in order, and no other argument of the block has changed.
C13_ExportImportPairs ==
  [][(MoveStep /\ log'[Len(log')].err = "")
       => LET refs == ExternalRefs(main_graph, MovedBlock)
              news == MovePlaceholders(main_graph', cross_iter_block_count')
          IN /\ Len(refs) = log'[Len(log')].k
             /\ Len(news) = Len(refs)
             /\ main_graph'.args[find_output(main_graph')] =
                  main_graph.args[find_output(main_graph)] \o Producers(main_graph, refs)
             /\ Placeholders(main_graph') = Placeholders(main_graph) \o news
             /\ \A j \in DOMAIN refs :
                  /\ main_graph'.args[refs[j][1]][refs[j][2]] = news[j]
                  /\ main_graph'.name[news[j]] = <<cross_iter_block_count', j - 1>>
             /\ \A i \in DOMAIN MovedBlock :
                  \A a \in DOMAIN main_graph.args[MovedBlock[i]] :
                    (\A j \in DOMAIN refs : refs[j] # <<MovedBlock[i], a>>)
                      => main_graph'.args[MovedBlock[i]][a] =
                           main_graph.args[MovedBlock[i]][a]]_vars

\* A move returned whose block had two inputs from different nodes.
C13_Witness ==
  /\ MoveReturned /\ log[Len(log)].k = 2
  /\ LET result == main_graph.args[find_output(main_graph)]
     IN result[Len(result) - 1] # result[Len(result)]

\* C14: on a frozen engine no call changes the setup graph or the cleanup
\* graph, and the engine stays frozen.
C14_FrozenLeavesSatellites ==
  [][_freeze_cross_iter_movement
       => /\ setup_graph' = setup_graph
          /\ cleanup_graph' = cleanup_graph
          /\ _freeze_cross_iter_movement']_vars

\* The mirrored primitives and the order of their work on the three graphs.
MirroredPrimitives ==
  {"call_function", "erase_node", "placeholder", "output", "node_update_arg",
   "node_prepend", "node_append", "node_add_user", "node_remove_user",
   "move_before", "move_after"}
MirrorOrder == <<"setup", "cleanup", "main">>

\* C16: a mirrored primitive called on an engine that is not frozen takes up
\* the setup graph first, the cleanup graph second and the steady graph last.
C16_SetupCleanupMain ==
  [][(/\ Len(log') = Len(log) + 1
      /\ log'[Len(log')].op \in MirroredPrimitives
      /\ ~_freeze_cross_iter_movement)
       => /\ Len(log'[Len(log')].order) <= Len(MirrorOrder)
          /\ log'[Len(log')].order = SubSeq(MirrorOrder, 1, Len(log'[Len(log')].order))]_vars

\* A step in which the export of move_to_next_iter_before on the setup graph
\* returned: the new output node is the one node an export creates, and it
\* creates it last.
SetupExported == MoveStep /\ Len(setup_graph'.op) > Len(setup_graph.op)

\* The values the output node of g returns beyond the first n.
OutputsFrom(g, n) ==
  SubSeq(g.args[find_output(g)], n + 1, Len(g.args[find_output(g)]))

\* C18 as stated: the export on the setup graph appends each node the block
\* reads from outside it once, where first met, and the move returns the
\* number of those nodes.
C18_Deduplicated ==
  [][SetupExported
       => LET inputs == Dedup(Producers(setup_graph,
                                        ExternalRefs(setup_graph, MovedSetupBlock)))
          IN /\ OutputsFrom(setup_graph', Len(setup_graph.args[find_output(setup_graph)]))
                  = inputs
             /\ log'[Len(log')].err = "" => log'[Len(log')].k = Len(inputs)]_vars

\* C18, amended: an export that returns appends to the output one node per
\* reference of the block to a node outside it, in traversal order, a node
\* read twice being appended twice, and returns the number of references;
\* on the setup graph whenever its export returned, on the steady graph when
\* the move returned.
C18_PerReference ==
  [][SetupExported
       => LET inputs == Producers(setup_graph, ExternalRefs(setup_graph, MovedSetupBlock))
              main_inputs == Producers(main_graph, ExternalRefs(main_graph, MovedBlock))
          IN /\ setup_graph'.args[find_output(setup_graph')] =
                  setup_graph.args[find_output(setup_graph)] \o inputs
             /\ log'[Len(log')].err = ""
                  => /\ log'[Len(log')].k = Len(inputs)
                     /\ main_graph'.args[find_output(main_graph')] =
                          main_graph.args[find_output(main_graph)] \o main_inputs]_vars

\* A move returned whose block read one outside node twice: the node is
\* returned twice by the setup graph.
C18_Witness ==
  /\ MoveReturned /\ log[Len(log)].k = 2
  /\ LET result == setup_graph.args[find_output(setup_graph)]
     IN result[Len(result) - 1] = result[Len(result)]

\* C20: a move_to_next_iter_before that raises after its export on the setup
\* graph returned leaves the three graphs and num_extra_output as they were.
C20_FailedMoveRestores ==
  [][(SetupExported /\ log'[Len(log')].err # "")
       => UNCHANGED <<setup_graph, cleanup_graph, main_graph, num_extra_output>>]_vars

\* ------------------------------------------- mirrored creates and erases
MaxMirrorNodes == 3    \* nodes of the traced graph of an edited engine
MaxNewArgs == 1        \* arguments of a call_function node made by the caller

MirrorEngines ==
  {InitialEngine(g) : g \in {t \in TracedGraphs : Len(t.op) <= MaxMirrorNodes}}

InitMirror == \E e \in MirrorEngines : Constructed(e, <<>>)

\* The insert contexts of a caller: none, or inserting_before or
\* inserting_after of a listed steady node or of None.
InsertContexts ==
  {<<"", None>>} \cup
  ({"inserting_before", "inserting_after"} \X (SeqToSet(Nodes(main_graph)) \cup {None}))

\* with graph.inserting_...(node): graph.call_function(f, args).
CallFunction ==
  \E ctx \in InsertContexts :
    \E args \in SeqsOf(SeqToSet(Nodes(main_graph)), 1, MaxNewArgs) :
      EngineCall("call_function", <<args, ctx>>,
                 With(insert_context(Engine, ctx[1], ctx[2]), LAMBDA ips :
                   IF ips.err # "" THEN Raised(Engine, ips.err)
                   ELSE call_function(Engine, args, ips)))

\* with graph.inserting_...(node): graph.placeholder(name).
Placeholder ==
  \E ctx \in InsertContexts :
    EngineCall("placeholder", <<ctx>>,
               With(insert_context(Engine, ctx[1], ctx[2]), LAMBDA ips :
                 IF ips.err # "" THEN Raised(Engine, ips.err)
                 ELSE placeholder(Engine, <<>>, ips)))

NextMirror ==
  \/ CallFunction
  \/ Placeholder
  \/ EraseNode
  \/ MoveToNextIterBefore
  \/ FreezeCrossIterMovement

SpecMirror == InitMirror /\ [][NextMirror]_vars

\* Every call made so far was a mirrored create or an erase, and returned.
OnlyMirroredEdits ==
  \A i \in DOMAIN log :
    /\ log[i].op \in {"call_function", "placeholder", "erase_node"}
    /\ log[i].err = ""

\* The node lists of the three graphs of e have one length and, position by
\* position, the steady node is mapped to the setup node and to the cleanup
\* node at that position, which have its operator.
Corresponds(e) ==
  LET m == Nodes(e.main)
      s == Nodes(e.setup)
      c == Nodes(e.cleanup)
  IN /\ Len(s) = Len(m) /\ Len(c) = Len(m)
     /\ \A i \in DOMAIN m :
          /\ lookup_node(e, m[i], "setup") = s[i]
          /\ lookup_node(e, m[i], "cleanup") = c[i]
          /\ e.setup.op[s[i]] = e.main.op[m[i]]
          /\ e.cleanup.op[c[i]] = e.main.op[m[i]]

\* C11: after any run of returned call_function, placeholder and erase_node
\* calls on an engine never frozen, under any insert context, the three node
\* lists have equal length and every steady node has its one recorded setup
\* and cleanup counterpart, a listed node at the same position with the same
\* operator.
C11_Correspondence == OnlyMirroredEdits => Corresponds(Engine)

\* A node was made in the middle of the graph and another node was erased.
C11_Witness ==
  /\ OnlyMirroredEdits /\ Len(log) = 2
  /\ log[1].op = "call_function" /\ log[1].args[2][1] = "inserting_before"
  /\ log[1].args[2][2] # None
  /\ log[2].op = "erase_node"
  /\ Len(main_graph.op) > Len(Nodes(main_graph))

\* C17: call_function on an engine that is not frozen, with an argument
\* that has no recorded counterpart in the setup or the cleanup graph, raises
\* and leaves the three graphs and the mappings as they were.
C17_CallFunctionRejects ==
  [][(/\ Len(log') = Len(log) + 1
      /\ log'[Len(log')].op = "call_function"
      /\ ~_freeze_cross_iter_movement
      /\ \E i \in DOMAIN log'[Len(log')].args[1] :
           \/ lookup_node(Engine, log'[Len(log')].args[1][i], "setup") = None
           \/ lookup_node(Engine, log'[Len(log')].args[1][i], "cleanup") = None)
       => /\ log'[Len(log')].err # ""
          /\ UNCHANGED <<graph_vars, setup_mapping, cleanup_mapping>>]_vars

\* ------------------------------------------------- the import on its own
MaxCount == 3          \* largest extra_input handed to _forward_inputs_to_subgraph

\* Lines 322-324 on a constructed engine, for a block of operation nodes of
\* the steady graph, any listed target_node and any extra_input: the block is
\* put before target_node and _forward_inputs_to_subgraph(subgraph, self,
\* extra_input) is called.
ForwardInputsToSubgraph ==
  /\ log = <<>>
  /\ \E subgraph \in Blocks(main_graph) :
       \E target_node \in SeqToSet(Nodes(main_graph)) :
         \E extra_input \in 0..MaxCount :
           \E r \in {forward_inputs_to_subgraph(
                       PrependAll(main_graph, target_node, subgraph),
                       subgraph, extra_input, cross_iter_block_count)} :
             /\ main_graph' = r.g
             /\ log' = <<[op |-> "_forward_inputs_to_subgraph",
                          args |-> <<subgraph, extra_input, target_node>>,
                          err |-> r.err, k |-> 0, order |-> <<>>]>>
  /\ UNCHANGED <<setup_graph, cleanup_graph, setup_mapping, cleanup_mapping,
                 _freeze_cross_iter_movement, cross_iter_block_count,
                 num_extra_output, module_vars, call, setups>>

NextImport == ForwardInputsToSubgraph

SpecImport == Init /\ [][NextImport]_vars

\* A step that is a call of _forward_inputs_to_subgraph, and the number of
\* references of its block to nodes outside the block.
ImportStep == Len(log') = 1 /\ log'[1].op = "_forward_inputs_to_subgraph"
ImportRefs == Len(ExternalRefs(main_graph, log'[1].args[1]))

\* The node list of g begins with a placeholder.
StartsWithPlaceholder(g) ==
  Nodes(g) # <<>> /\ g.op[Head(Nodes(g))] = "placeholder"

\* C19 as stated: _forward_inputs_to_subgraph(block, graph, count) raises
\* exactly when the number of references of the block to nodes outside it is
\* not count.
C19_ImportCount ==
  [][ImportStep => (log'[1].err # "" <=> ImportRefs # log'[1].args[2])]_vars

\* C19, amended: on a graph whose node list begins with a placeholder
\* _forward_inputs_to_subgraph(block, graph, count) raises exactly when the
\* number of references of the block to nodes outside it is not count, a
\* RuntimeError both when it is smaller (input nodes are left unused) and when
\* it is larger (a reference finds no input node); on a graph whose node list
\* does not begin with a placeholder it raises an AssertionError whatever
\* count is.
C19_ImportCountAfterPlaceholder ==
  [][ImportStep
       => IF StartsWithPlaceholder(main_graph')
          THEN /\ ImportRefs = log'[1].args[2] => log'[1].err = ""
               /\ ImportRefs # log'[1].args[2] => log'[1].err = "RuntimeError"
          ELSE log'[1].err = "AssertionError"]_vars

\* The import of a block with one reference was handed two input nodes and
\* raised, one of them in use and one unused.
C19_Witness ==
  /\ Len(log) = 1 /\ log[1].op = "_forward_inputs_to_subgraph"
  /\ log[1].args[2] = 2 /\ log[1].err = "RuntimeError"
  /\ Cardinality({n \in SeqToSet(Placeholders(main_graph)) :
                    main_graph.name[n] # <<>> /\ main_graph.users[n] # {}}) = 1

\* ------------------------------------------------- blocks of three nodes
MaxWideCalls == 3      \* call_function nodes of a traced graph moved in one piece
MaxWideArgs == 1       \* arguments of each of them
MaxWideBlock == 3      \* nodes of a block of such a graph

\* The traced graphs of up to MaxWideCalls operation nodes.
WideGraphs ==
  {g \in {TracedGraph(calls, <<r>>) :
            calls \in {c \in SeqsOf(SeqsOf(1..MaxWideCalls, 1, MaxWideArgs), 1, MaxWideCalls) :
                         \A i \in DOMAIN c : \A j \in DOMAIN c[i] : c[i][j] <= i},
            r \in 1..(MaxWideCalls + 1)} :
     \A i \in DOMAIN g.args : \A j \in DOMAIN g.args[i] : g.args[i][j] < i}

InitWide == \E g \in WideGraphs : Constructed(InitialEngine(g), <<>>)

WideBlocks(g) ==
  DistinctSeqs({n \in SeqToSet(Nodes(g)) : g.op[n] = "call_function"}, MaxWideBlock)

\* move_to_next_iter_before as the first call on a constructed engine.
MoveWideBlock ==
  /\ log = <<>>
  /\ \E subgraph \in WideBlocks(main_graph) :
       \E target_node \in SeqToSet(Nodes(main_graph)) :
         EngineCall("move_to_next_iter_before", <<subgraph, target_node>>,
                    move_to_next_iter_before(Engine, subgraph, target_node))

NextWide == MoveWideBlock

SpecWide == InitWide /\ [][NextWide]_vars

\* Some node of block comes, in block, before a node of block that is among
\* its arguments in g.
NotTopological(g, block) ==
  \E i \in DOMAIN block :
    \E j \in DOMAIN block :
      i < j /\ block[j] \in SeqToSet(g.args[block[i]])

\* C21: move_to_next_iter_before with a block in which some node is listed
\* before a block node it consumes raises and leaves the three graphs as they
\* were.
C21_TopologicalOrderValidated ==
  [][(MoveStep /\ NotTopological(main_graph, MovedBlock))
       => (log'[Len(log')].err # "" /\ UNCHANGED graph_vars)]_vars

\* A step in which the export of move_to_next_iter_before on the steady graph
\* returned: the graph has gained the output node the export creates.
SteadyExported == MoveStep /\ Len(main_graph'.op) > Len(main_graph.op)

\* The number of values an export appended to the output of graph g, g2 being
\* the graph after the move: the output node g2 gained returns that many more
\* values than the output node of g.
ExportedCount(g, g2) ==
  LET output == CHOOSE n \in Handles(g2) \ Handles(g) : g2.op[n] = "output"
  IN Len(g2.args[output]) - Len(g.args[find_output(g)])

MovedCleanupBlock == [i \in DOMAIN MovedBlock |-> cleanup_mapping[MovedBlock[i]]]
MovedCleanupAnchor == cleanup_mapping[log'[Len(log')].args[2]]

\* C23: after a move_to_next_iter_before that returned, the cleanup graph
\* still lists every node it listed, in the order it had, the counterparts of
\* the block with their operator and arguments; it has gained one
\* call_function node per block node, and these clones sit, in block order,
\* right before the counterpart of the anchor; where a block node read a
\* block node its clone reads the clone of that node, and where it read a node
\* outside the block its clone reads one of the k placeholders of the move.
C23_CleanupClones ==
  [][(MoveStep /\ log'[Len(log')].err = "")
       => LET block == MovedCleanupBlock
              clones == [i \in DOMAIN block |-> Len(cleanup_graph.op) + i]
              news == MovePlaceholders(cleanup_graph', cross_iter_block_count')
              listed == Nodes(cleanup_graph')
          IN /\ SelectSeq(listed, LAMBDA n : n \in Handles(cleanup_graph))
                  = Nodes(cleanup_graph)
             /\ \A i \in DOMAIN block :
                  /\ block[i] \in SeqToSet(listed)
                  /\ cleanup_graph'.op[block[i]] = cleanup_graph.op[block[i]]
                  /\ cleanup_graph'.args[block[i]] = cleanup_graph.args[block[i]]
             /\ {n \in Handles(cleanup_graph') \ Handles(cleanup_graph) :
                   cleanup_graph'.op[n] = "call_function"} = SeqToSet(clones)
             /\ Len(news) = log'[Len(log')].k
             /\ \E p \in DOMAIN listed :
                  /\ listed[p] = MovedCleanupAnchor
                  /\ p > Len(block)
                  /\ \A i \in DOMAIN block : listed[p - Len(block) + i - 1] = clones[i]
             /\ \A i \in DOMAIN block :
                  /\ Len(cleanup_graph'.args[clones[i]]) = Len(cleanup_graph.args[block[i]])
                  /\ \A j \in DOMAIN cleanup_graph.args[block[i]] :
                       LET a == cleanup_graph.args[block[i]][j]
                           c == cleanup_graph'.args[clones[i]][j]
                       IN IF a = None THEN c = None
                          ELSE IF a \in SeqToSet(block) THEN c = clones[IndexOf(block, a)]
                          ELSE c \in SeqToSet(news)]_vars

\* A move of two nodes returned: in the cleanup graph the clone of the second
\* reads the clone of the first, which reads a placeholder of the move.
C23_Witness ==
  /\ MoveReturned /\ Len(log[Len(log)].args[1]) = 2
  /\ \E n \in Handles(cleanup_graph) :
       /\ n > 1
       /\ cleanup_graph.op[n] = "call_function"
       /\ cleanup_graph.op[n - 1] = "call_function"
       /\ (n - 1) \in SeqToSet(cleanup_graph.args[n])
       /\ \E b \in SeqToSet(cleanup_graph.args[n - 1]) \ {None} :
            cleanup_graph.name[b] # <<>>

\* Every node of the list of g has a user key, "__hold__" when no node uses
\* it, and is among the users of each node it reads.
AllHeldOrUsed(g) ==
  \A n \in SeqToSet(Nodes(g)) :
    /\ g.users[n] # {}
    /\ (\A u \in g.users[n] : u <= None) => HOLD \in g.users[n]
    /\ \A a \in SeqToSet(g.args[n]) \ {None} : n \in g.users[a]

\* C24: after a move_to_next_iter_before that returned, every node of the
\* steady graph and of the cleanup graph has a non-empty user set: a node that
\* no node uses carries "__hold__", and every node is still among the users of
\* the nodes it reads.
C24_NothingUnused ==
  MoveReturned => (AllHeldOrUsed(main_graph) /\ AllHeldOrUsed(cleanup_graph))

\* A move returned that left the moved node and the new output node of the
\* steady graph, and a clone in the cleanup graph, without any node user.
C24_Witness ==
  /\ MoveReturned
  /\ main_graph.users[find_output(main_graph)] = {HOLD}
  /\ \E n \in SeqToSet(log[Len(log)].args[1]) : main_graph.users[n] = {HOLD}
  /\ cleanup_graph.users[Len(cleanup_graph.op) - log[Len(log)].k] = {HOLD}
  /\ cleanup_graph.op[Len(cleanup_graph.op) - log[Len(log)].k] = "call_function"

\* The placeholders of g are the first nodes of its list.
PlaceholdersFirst(g) ==
  LET listed == Nodes(g)
  IN \A i \in DOMAIN listed :
       g.op[listed[i]] = "placeholder"
         => \A j \in 1..(i - 1) : g.op[listed[j]] = "placeholder"

\* The move number count has put its k placeholders right after the
\* placeholders g had, in index order, g2 being the graph after the move.
PlaceholdersAppended(g, g2, count, k) ==
  LET news == MovePlaceholders(g2, count)
  IN /\ Len(news) = k
     /\ Placeholders(g2) = Placeholders(g) \o news
     /\ \A j \in DOMAIN news : g2.name[news[j]] = <<count, j - 1>>
     /\ PlaceholdersFirst(g2)

\* C26: a move_to_next_iter_before that returns on graphs whose placeholders
\* come first leaves, in the steady graph and in the cleanup graph, the old
\* placeholders followed by its k new ones in index order 0..k-1, all of them
\* before every other node.
C26_PlaceholderPrefix ==
  [][(/\ MoveStep /\ log'[Len(log')].err = ""
      /\ PlaceholdersFirst(main_graph) /\ PlaceholdersFirst(cleanup_graph))
       => /\ PlaceholdersAppended(main_graph, main_graph',
                                  cross_iter_block_count', log'[Len(log')].k)
          /\ PlaceholdersAppended(cleanup_graph, cleanup_graph',
                                  cross_iter_block_count', log'[Len(log')].k)]_vars

\* C28: on an engine that is not frozen, a move_to_next_iter_before of a
\* block that is in topological order and passes the check of its users (each
\* node user of a block node is in the block or is the output node; user keys
\* that are not nodes do not count) gets through its export on the setup
\* graph, block nodes that carry "__hold__" or that the output node returns
\* included.
C28_SetupExportCompletes ==
  [][(/\ MoveStep
      /\ ~_freeze_cross_iter_movement
      /\ ~NotTopological(main_graph, MovedBlock)
      /\ ~HasOutsideUser(main_graph, MovedBlock))
       => SetupExported]_vars

AllGraphs == <<"setup", "cleanup", "main">>

\* The engine e with g for its graph named graph.
SetGraph(e, graph, g) ==
  IF graph = "setup" THEN [e EXCEPT !.setup = g]
  ELSE IF graph = "cleanup" THEN [e EXCEPT !.cleanup = g]
  ELSE [e EXCEPT !.main = g]

\* Lines 339-340 on one graph: t.prepend(node) for each node of nodes, which
\* fails on a node that is None.  [g, err].
RECURSIVE PrependEach(_, _, _)
PrependEach(g, t, nodes) ==
  IF nodes = <<>> THEN [g |-> g, err |-> ""]
  ELSE IF Head(nodes) = None THEN [g |-> g, err |-> "AttributeError"]
  ELSE With(FxPrepend(g, t, Head(nodes)), LAMBDA g2 : PrependEach(g2, t, Tail(nodes)))

\* Lines 346-349 on one graph: each node of nodes is appended to the one
\* before it, the first to t; t is asserted not to be None before each
\* append.  [g, err].
RECURSIVE AppendEach(_, _, _)
AppendEach(g, t, nodes) ==
  IF nodes = <<>> THEN [g |-> g, err |-> ""]
  ELSE IF t = None THEN [g |-> g, err |-> "AssertionError"]
  ELSE IF Head(nodes) = None THEN [g |-> g, err |-> "AttributeError"]
  ELSE With(FxAppend(g, t, Head(nodes)), LAMBDA g2 :
         AppendEach(g2, Head(nodes), Tail(nodes)))

\* The loop of move_before over _all_graphs from graph number i on: r is
\* what the call has come to so far.
RECURSIVE MoveBeforeLoop(_, _, _, _)
MoveBeforeLoop(r, nodes, target_node, i) ==
  IF i > Len(AllGraphs) \/ r.err # "" THEN r
  ELSE
    LET graph == AllGraphs[i]
        actual_nodes == [j \in DOMAIN nodes |-> lookup_node(r.e, nodes[j], graph)]
        actual_target_node == lookup_node(r.e, target_node, graph)
    IN IF actual_target_node = None THEN Took(Raised(r.e, "AssertionError"), r.order)
       ELSE With(PrependEach(GraphOf(r.e, graph), actual_target_node, actual_nodes),
                 LAMBDA x :
              MoveBeforeLoop(Took(Ended(SetGraph(r.e, graph, x.g), x.err),
                                  Append(r.order, graph)),
                             nodes, target_node, i + 1))

\* IterGraph.move_before.
move_before(e, nodes, target_node) == MoveBeforeLoop(Returned(e), nodes, target_node, 1)

\* The loop of move_after over _all_graphs from graph number i on.
RECURSIVE MoveAfterLoop(_, _, _, _)
MoveAfterLoop(r, nodes, target_node, i) ==
  IF i > Len(AllGraphs) \/ r.err # "" THEN r
  ELSE
    LET graph == AllGraphs[i]
        actual_nodes == [j \in DOMAIN nodes |-> lookup_node(r.e, nodes[j], graph)]
        actual_target_node == lookup_node(r.e, target_node, graph)
    IN With(AppendEach(GraphOf(r.e, graph), actual_target_node, actual_nodes),
            LAMBDA x :
         MoveAfterLoop(Took(Ended(SetGraph(r.e, graph, x.g), x.err),
                            Append(r.order, graph)),
                       nodes, target_node, i + 1))

\* IterGraph.move_after.
move_after(e, nodes, target_node) == MoveAfterLoop(Returned(e), nodes, target_node, 1)

\* Graph.placeholder(name) with a name that is not a string, here the values
\* handed to output: no node name can be made of it and no node is created.
FxPlaceholderNamed(g, name) == [g |-> g, err |-> "AssertionError"]

\* IterGraph.output outside any insert context: result is the tuple of nodes
\* to return.
output(e, result) ==
  IF e._freeze_cross_iter_movement
  THEN With(FxPlaceholderNamed(e.main, result), LAMBDA m :
         Took(Ended(WithMain(e, m.g), m.err), <<"main">>))
  ELSE
    With(FxCreateNode(e.main, "output", result, <<>>, Len(result), InsertEnd), LAMBDA m :
    With(FxCreateNode(e.setup, "output", LookupArgs(e, result, "setup"), <<>>,
                      Len(result), InsertEnd), LAMBDA s :
    With(FxCreateNode(e.cleanup, "output", LookupArgs(e, result, "cleanup"), <<>>,
                      Len(result), InsertEnd), LAMBDA c :
      Took(Returned([WithMain(e, m.g) EXCEPT !.setup = s.g, !.cleanup = c.g]),
           <<"main", "setup", "cleanup">>))))

\* The builtin type int where an index is expected.
IntType == 0 - 2

\* Node.update_arg(idx, arg), idx counted from 1: a type for idx is no list
\* index, and an idx that is no position of the argument list is out of range.
FxUpdateArg(g, n, idx, arg) ==
  IF idx = IntType THEN [g |-> g, err |-> "TypeError"]
  ELSE IF idx \notin DOMAIN g.args[n] THEN [g |-> g, err |-> "IndexError"]
  ELSE FxSetArgs(g, n, [g.args[n] EXCEPT ![idx] = arg])

\* IterGraph.node_update_arg.
node_update_arg(e, node, idx, arg) ==
  IF e._freeze_cross_iter_movement
  THEN With(FxUpdateArg(e.main, node, IntType, arg), LAMBDA m :
         Took(Ended(WithMain(e, m.g), m.err), <<"main">>))
  ELSE
    LET counterpart(graph) == IF arg = None THEN None ELSE lookup_node(e, arg, graph)
        setup_node == lookup_node(e, node, "setup")
        cleanup_node == lookup_node(e, node, "cleanup")
    IN IF setup_node = None THEN Raised(e, "AssertionError")
       ELSE
         With(FxUpdateArg(e.setup, setup_node, idx, counterpart("setup")), LAMBDA s :
           IF s.err # "" THEN Took(Raised([e EXCEPT !.setup = s.g], s.err), <<"setup">>)
           ELSE
             With(FxUpdateArg(e.main, node, idx, arg), LAMBDA m :
             With([e EXCEPT !.setup = s.g, !.main = m.g], LAMBDA e2 :
               IF m.err # "" THEN Took(Raised(e2, m.err), <<"setup", "main">>)
               ELSE IF cleanup_node = None
               THEN Took(Raised(e2, "AssertionError"), <<"setup", "main">>)
               ELSE With(FxUpdateArg(e2.cleanup, cleanup_node, idx, counterpart("cleanup")),
                         LAMBDA c :
                      Took(Ended([e2 EXCEPT !.cleanup = c.g], c.err),
                           <<"setup", "main", "cleanup">>)))))

\* The engines edited: those of the traced graphs whose operation nodes have
\* MaxNewArgs arguments at most.
EditEngines ==
  {InitialEngine(g) :
     g \in {t \in TracedGraphs :
              \A n \in Handles(t) : t.op[n] = "call_function" => Len(t.args[n]) <= MaxNewArgs}}

InitEdit == \E e \in EditEngines : Constructed(e, <<>>)

MoveBefore ==
  \E nodes \in DistinctSeqs(SeqToSet(Nodes(main_graph)), MaxBlock) :
    \E target_node \in SeqToSet(Nodes(main_graph)) :
      EngineCall("move_before", <<nodes, target_node>>,
                 move_before(Engine, nodes, target_node))

MoveAfter ==
  \E nodes \in DistinctSeqs(SeqToSet(Nodes(main_graph)), MaxBlock) :
    \E target_node \in SeqToSet(Nodes(main_graph)) :
      EngineCall("move_after", <<nodes, target_node>>,
                 move_after(Engine, nodes, target_node))

Output ==
  \E result \in SeqsOf(SeqToSet(Nodes(main_graph)), 1, MaxNewArgs) :
    EngineCall("output", <<result>>, output(Engine, result))

NodeUpdateArg ==
  \E node \in SeqToSet(Nodes(main_graph)) :
    \E idx \in DOMAIN main_graph.args[node] :
      \E arg \in SeqToSet(Nodes(main_graph)) :
        EngineCall("node_update_arg", <<node, idx, arg>>,
                   node_update_arg(Engine, node, idx, arg))

NextEdit ==
  \/ MoveBefore
  \/ MoveAfter
  \/ Output
  \/ NodeUpdateArg
  \/ MoveToNextIterBefore
  \/ FreezeCrossIterMovement

SpecEdit == InitEdit /\ [][NextEdit]_vars

\* In g2 the nodes of nodes sit, in order, right before t (before) or right
\* after t (otherwise); g2 lists the nodes g listed, the others in the order
\* they had, and has the nodes, arguments and user sets of g.
Repositioned(g, g2, nodes, t, before) ==
  LET listed == Nodes(g2)
      others(s) == SelectSeq(s, LAMBDA n : n \notin SeqToSet(nodes))
  IN /\ \E p \in DOMAIN listed :
          /\ listed[p] = t
          /\ IF before
             THEN /\ p > Len(nodes)
                  /\ \A i \in DOMAIN nodes : listed[p - Len(nodes) + i - 1] = nodes[i]
             ELSE /\ p + Len(nodes) <= Len(listed)
                  /\ \A i \in DOMAIN nodes : listed[p + i] = nodes[i]
     /\ others(listed) = others(Nodes(g))
     /\ Len(listed) = Len(Nodes(g))
     /\ g2.op = g.op /\ g2.erased = g.erased
     /\ g2.args = g.args /\ g2.users = g.users

\* C25: a move_before or move_after of nodes other than the target that
\* returns has put, in each of the three graphs, the counterparts of the nodes
\* in the given order right before (move_before) or right after (move_after)
\* the counterpart of the target, and has created or erased no node and
\* changed no argument and no user set.
C25_RepositionedInAllGraphs ==
  [][(/\ Len(log') = Len(log) + 1
      /\ log'[Len(log')].op \in {"move_before", "move_after"}
      /\ log'[Len(log')].err = ""
      /\ log'[Len(log')].args[2] \notin SeqToSet(log'[Len(log')].args[1]))
       => LET nodes == log'[Len(log')].args[1]
              t == log'[Len(log')].args[2]
              before == log'[Len(log')].op = "move_before"
          IN /\ Repositioned(main_graph, main_graph', nodes, t, before)
             /\ Repositioned(setup_graph, setup_graph',
                             [i \in DOMAIN nodes |-> setup_mapping[nodes[i]]],
                             setup_mapping[t], before)
             /\ Repositioned(cleanup_graph, cleanup_graph',
                             [i \in DOMAIN nodes |-> cleanup_mapping[nodes[i]]],
                             cleanup_mapping[t], before)]_vars

\* C27: on a frozen engine output(values) and node_update_arg(node, idx, arg)
\* change the steady graph as they do on an engine that is not frozen: the
\* first adds an output node that returns values, the second sets argument
\* idx of node to arg.
C27_FrozenEditsSteady ==
  [][(Len(log') = Len(log) + 1 /\ _freeze_cross_iter_movement)
       => LET c == log'[Len(log')]
          IN /\ c.op = "output"
                  => main_graph' = FxCreateNode(main_graph, "output", c.args[1], <<>>,
                                                Len(c.args[1]), InsertEnd).g
             /\ c.op = "node_update_arg"
                  => main_graph' = FxUpdateArg(main_graph, c.args[1], c.args[2],
                                               c.args[3]).g]_vars

====
